---- MODULE Spec2Model ----
(***************************************************************************)
(* Model of the UVM assembler (src/assembler.py): the line parser, the IR  *)
(* builder, the encoder, the image writer and the command-line driver.     *)
(*                                                                         *)
(* Text is a sequence of one-character strings, so that comment cutting,   *)
(* trimming, tokenising, upper-casing and integer parsing are computed on  *)
(* the characters.  A Python int that may exceed 31 bits (the packed word) *)
(* is held as a record [hi, lo] with value hi * 2^16 + lo, 0 <= lo < 2^16  *)
(* and hi any integer (two's complement with sign extension in hi).        *)
(***************************************************************************)
EXTENDS Integers, Sequences, FiniteSets, TLC

VARIABLES
    file,         \* the input file as readlines() returns it
    test,         \* args.test
    pc,           \* position of main
    lines,        \* main: lines
    i,            \* assemble_to_ir: 1-based loop position
    instructions, \* assemble_to_ir: instructions
    parse_calls,  \* the calls of parse_line made so far: [line_no, line, res]
    ir,           \* main: ir, <<>> while unbound, <<list>> once bound
    idx,          \* loop position of print_machine_code / write_binary_file
    enc,          \* the last call of encode_instruction: <<>> or <<[instr, word, res]>>
    buf,          \* write buffer of the open output file object
    out,          \* the output path: [exists, bytes]
    stdout,
    stderr,
    exc,          \* the exception in flight or handled: <<>> or <<e>>
    exit_code     \* <<>> while running, <<0>> or <<1>> once the process has ended

vars == <<file, test, pc, lines, i, instructions, parse_calls, ir, idx, enc,
          buf, out, stdout, stderr, exc, exit_code>>

-----------------------------------------------------------------------------
(* Bounds *)

\* longest input file built from SourceRows
MaxLines == 3

-----------------------------------------------------------------------------
(* Characters and strings *)

SetMin(S) == CHOOSE x \in S : \A y \in S : x <= y
SetMax(S) == CHOOSE x \in S : \A y \in S : x >= y

\* the characters str.strip() and str.split() treat as whitespace (ASCII part)
Whitespace == {" ", "\t", "\n", "\r"}

LowerLetters == <<"a","b","c","d","e","f","g","h","i","j","k","l","m",
                  "n","o","p","q","r","s","t","u","v","w","x","y","z">>
UpperLetters == <<"A","B","C","D","E","F","G","H","I","J","K","L","M",
                  "N","O","P","Q","R","S","T","U","V","W","X","Y","Z">>
DigitChars == <<"0","1","2","3","4","5","6","7","8","9">>

IsDigit(c) == \E d \in 1..10 : DigitChars[d] = c
DigitValue(c) == (CHOOSE d \in 1..10 : DigitChars[d] = c) - 1

\* line.split(";")[0]
split_semicolon_0(s) ==
    LET at == {p \in 1..Len(s) : s[p] = ";"}
    IN  IF at = {} THEN s ELSE SubSeq(s, 1, SetMin(at) - 1)

\* str.strip()
strip(s) ==
    LET ink == {p \in 1..Len(s) : s[p] \notin Whitespace}
    IN  IF ink = {} THEN <<>> ELSE SubSeq(s, SetMin(ink), SetMax(ink))

\* str.split() with no separator: runs of non-whitespace
RECURSIVE split(_)
split(s) ==
    LET ink == {p \in 1..Len(s) : s[p] \notin Whitespace}
    IN  IF ink = {} THEN <<>>
        ELSE LET a   == SetMin(ink)
                 gap == {p \in a..Len(s) : s[p] \in Whitespace}
                 b   == IF gap = {} THEN Len(s) ELSE SetMin(gap) - 1
             IN  <<SubSeq(s, a, b)>> \o split(SubSeq(s, b + 1, Len(s)))

\* str.upper()
upper(s) ==
    [p \in 1..Len(s) |->
        IF \E l \in 1..26 : LowerLetters[l] = s[p]
        THEN UpperLetters[CHOOSE l \in 1..26 : LowerLetters[l] = s[p]]
        ELSE s[p]]

\* int(token): scans an optional sign, then digits with single underscores
\* between digits; anything else is ValueError.  [ok, value]
RECURSIVE int_digits(_, _, _, _)
int_digits(s, p, acc, prev_digit) ==
    IF p > Len(s) THEN [ok |-> prev_digit, value |-> acc]
    ELSE IF IsDigit(s[p]) THEN int_digits(s, p + 1, acc * 10 + DigitValue(s[p]), TRUE)
    ELSE IF s[p] = "_" /\ prev_digit THEN int_digits(s, p + 1, acc, FALSE)
    ELSE [ok |-> FALSE, value |-> 0]

int(s) ==
    LET t    == strip(s)
        sign == IF t # <<>> /\ t[1] = "-" THEN -1 ELSE 1
        body == IF t # <<>> /\ t[1] \in {"+", "-"} THEN Tail(t) ELSE t
        r    == int_digits(body, 1, 0, FALSE)
    IN  IF r.ok THEN [ok |-> TRUE, value |-> sign * r.value]
        ELSE [ok |-> FALSE, value |-> 0]

-----------------------------------------------------------------------------
(* Opcode table *)

LOAD_CONST == <<"L","O","A","D","_","C","O","N","S","T">>
LOAD_MEM   == <<"L","O","A","D","_","M","E","M">>
STORE_MEM  == <<"S","T","O","R","E","_","M","E","M">>
BITREVERSE == <<"B","I","T","R","E","V","E","R","S","E">>

OPCODES ==
    [m \in {LOAD_CONST, LOAD_MEM, STORE_MEM, BITREVERSE} |->
        IF m = LOAD_CONST THEN 42
        ELSE IF m = LOAD_MEM THEN 23
        ELSE IF m = STORE_MEM THEN 1
        ELSE 60]

-----------------------------------------------------------------------------
(* Instruction and parse_line *)

\* Instruction(mnemonic, A, B): B is <<>> for None, <<n>> for the int n
Instruction(mnemonic, A, B) ==
    [kind |-> "Instruction", mnemonic |-> mnemonic, A |-> A, B |-> B]

None == [kind |-> "None"]

\* the three failures of parse_line, each a SyntaxError carrying the line number
SyntaxError(error, line_no) ==
    [kind |-> "SyntaxError", error |-> error, line_no |-> line_no]

\* parse_line without the upper-casing of the first token
parse_line_no_upper(line, line_no) ==
    LET stripped == strip(split_semicolon_0(line))
    IN  IF stripped = <<>> THEN None
        ELSE
        LET parts    == split(stripped)
            mnemonic == parts[1]
        IN  IF mnemonic \notin DOMAIN OPCODES
            THEN SyntaxError("UnknownMnemonic", line_no)
            ELSE
            LET opcode == OPCODES[mnemonic]
            IN  IF mnemonic \in {LOAD_CONST, LOAD_MEM}
                THEN IF Len(parts) # 2
                     THEN SyntaxError("ArityMismatch", line_no)
                     ELSE LET operand == int(parts[2])
                          IN  IF ~operand.ok
                              THEN SyntaxError("InvalidOperand", line_no)
                              ELSE Instruction(mnemonic, opcode, <<operand.value>>)
                ELSE IF mnemonic \in {STORE_MEM, BITREVERSE}
                THEN IF Len(parts) # 1
                     THEN SyntaxError("ArityMismatch", line_no)
                     ELSE Instruction(mnemonic, opcode, <<>>)
                ELSE None

\* parse_line converting the operand before it counts the tokens
parse_line_int_first(line, line_no) ==
    LET stripped == strip(split_semicolon_0(line))
    IN  IF stripped = <<>> THEN None
        ELSE
        LET parts    == split(stripped)
            mnemonic == upper(parts[1])
        IN  IF mnemonic \notin DOMAIN OPCODES
            THEN SyntaxError("UnknownMnemonic", line_no)
            ELSE
            LET opcode == OPCODES[mnemonic]
            IN  IF mnemonic \in {LOAD_CONST, LOAD_MEM}
                THEN IF Len(parts) >= 2 /\ ~int(parts[2]).ok
                     THEN SyntaxError("InvalidOperand", line_no)
                     ELSE IF Len(parts) # 2
                     THEN SyntaxError("ArityMismatch", line_no)
                     ELSE Instruction(mnemonic, opcode, <<int(parts[2]).value>>)
                ELSE IF mnemonic \in {STORE_MEM, BITREVERSE}
                THEN IF Len(parts) # 1
                     THEN SyntaxError("ArityMismatch", line_no)
                     ELSE Instruction(mnemonic, opcode, <<>>)
                ELSE None

parse_line(line, line_no) ==
    LET stripped == strip(split_semicolon_0(line))
    IN  IF stripped = <<>> THEN None
        ELSE
        LET parts    == split(stripped)
            mnemonic == upper(parts[1])
        IN  IF mnemonic \notin DOMAIN OPCODES
            THEN SyntaxError("UnknownMnemonic", line_no)
            ELSE
            LET opcode == OPCODES[mnemonic]
            IN  IF mnemonic \in {LOAD_CONST, LOAD_MEM}
                THEN IF Len(parts) # 2
                     THEN SyntaxError("ArityMismatch", line_no)
                     ELSE LET operand == int(parts[2])
                          IN  IF ~operand.ok
                              THEN SyntaxError("InvalidOperand", line_no)
                              ELSE Instruction(mnemonic, opcode, <<operand.value>>)
                ELSE IF mnemonic \in {STORE_MEM, BITREVERSE}
                THEN IF Len(parts) # 1
                     THEN SyntaxError("ArityMismatch", line_no)
                     ELSE Instruction(mnemonic, opcode, <<>>)
                ELSE None

\* enumerate(source_lines) with the default start of 0
enumerate_start_0(source_lines) ==
    [p \in 1..Len(source_lines) |-> <<p - 1, source_lines[p]>>]

\* enumerate(source_lines, start=1): the pairs (line number, line)
enumerate_start_1(source_lines) ==
    [p \in 1..Len(source_lines) |-> <<p, source_lines[p]>>]

\* list.insert(0, x)
insert_0(list, x) == <<x>> \o list

\* list.append
append(list, x) == list \o <<x>>

-----------------------------------------------------------------------------
(* Encoder *)

Limb == 2^16

\* a Python int n with |n| < 2^31 as [hi, lo]
Wide(n) == [hi |-> n \div Limb, lo |-> n % Limb]

\* n << k for 0 <= k <= 14, the result possibly wider than 31 bits
ShiftLeft(n, k) ==
    LET w == Wide(n)
        l == w.lo * 2^k
    IN  [hi |-> w.hi * 2^k + l \div Limb, lo |-> l % Limb]

\* x & y on naturals, bit by bit
RECURSIVE BitAnd(_, _)
BitAnd(x, y) ==
    IF x = 0 \/ y = 0 THEN 0
    ELSE (IF x % 2 = 1 /\ y % 2 = 1 THEN 1 ELSE 0) + 2 * BitAnd(x \div 2, y \div 2)

\* x | y on naturals, bit by bit
RECURSIVE BitOr(_, _)
BitOr(x, y) ==
    IF x = 0 THEN y
    ELSE IF y = 0 THEN x
    ELSE (IF x % 2 = 1 \/ y % 2 = 1 THEN 1 ELSE 0) + 2 * BitOr(x \div 2, y \div 2)

\* w | a for a natural a < 2^16: the bits of a above the low limb are zero
WideOr(w, a) == [hi |-> w.hi, lo |-> BitOr(w.lo, a)]

\* instr.B or 0
B_or_0(instr) == IF instr.B = <<>> THEN 0 ELSE instr.B[1]

\* encode_instruction shifting the operand by 5 bits
encode_word_shift_5(instr) ==
    LET A == instr.A
        B == B_or_0(instr)
    IN  IF instr.mnemonic = LOAD_CONST THEN WideOr(ShiftLeft(B, 5), A)
        ELSE IF instr.mnemonic = LOAD_MEM THEN WideOr(ShiftLeft(B, 5), A)
        ELSE Wide(A)

\* the word encode_instruction packs before it converts it to bytes
encode_word(instr) ==
    LET A == instr.A
        B == B_or_0(instr)
    IN  IF instr.mnemonic = LOAD_CONST THEN WideOr(ShiftLeft(B, 6), A)
        ELSE IF instr.mnemonic = LOAD_MEM THEN WideOr(ShiftLeft(B, 6), A)
        ELSE Wide(A)

\* word.to_bytes(4, byteorder='big')
to_bytes_4_big(word) ==
    IF word.hi < 0 \/ word.hi >= Limb
    THEN [kind |-> "OverflowError"]
    ELSE [kind |-> "bytes",
          bytes |-> <<word.hi \div 256, word.hi % 256,
                      word.lo \div 256, word.lo % 256>>]

\* word.to_bytes(4, byteorder='little'): OverflowError for a negative word and
\* for a word of more than 32 bits
to_bytes_4_little(word) ==
    IF word.hi < 0 \/ word.hi >= Limb
    THEN [kind |-> "OverflowError"]
    ELSE [kind |-> "bytes",
          bytes |-> <<word.lo % 256, word.lo \div 256,
                      word.hi % 256, word.hi \div 256>>]

encode_instruction(instr) == to_bytes_4_little(encode_word(instr))

\* a write that replaces what was written before
f_write_replace(buffer, data) == data

\* f.write(data) on the buffered file object
f_write(buffer, data) == buffer \o data

-----------------------------------------------------------------------------
(* Input files *)

\* the rows of the input files of several lines
\* 'LOAD_CONST 3'
RowLoadConst3 ==
    <<"L","O","A","D","_","C","O","N","S","T"," ","3">>
\* 'STORE_MEM'
RowStoreMem ==
    <<"S","T","O","R","E","_","M","E","M">>
\* '; comment'
RowComment ==
    <<";"," ","c","o","m","m","e","n","t">>
\* 'BITREVERSE'
RowBitreverse ==
    <<"B","I","T","R","E","V","E","R","S","E">>
\* ''
RowBlank ==
    <<>>
\* 'FOO 1'
RowFoo1 ==
    <<"F","O","O"," ","1">>
\* 'LOAD_CONST -1'
RowLoadConstMinus1 ==
    <<"L","O","A","D","_","C","O","N","S","T"," ","-","1">>
\* 'load_mem 10 ; addr'
RowLoadMem10Addr ==
    <<"l","o","a","d","_","m","e","m"," ","1","0"," ",";"," ","a","d","d","r">>
SourceRows ==
    {RowLoadConst3, RowStoreMem, RowComment, RowBlank,
     RowFoo1, RowLoadConstMinus1, RowLoadMem10Addr}

\* first tokens of the one-line input files
UnitMnemonics ==
    {LOAD_CONST, LOAD_MEM, STORE_MEM, BITREVERSE,
     <<"l","o","a","d","_","c","o","n","s","t">>,
     <<"S","t","o","r","e","_","M","e","m">>,
     <<"F","O","O">>}

\* the tokens after the first one, in the one-line input files
UnitOperands ==
    {<<>>,
     <<<<"0">>>>,
     <<<<"3">>>>,
     <<<<"1","0">>>>,
     <<<<"-","1">>>>,
     <<<<"+","5">>>>,
     <<<<"1","_","0">>>>,
     <<<<"0","0","7">>>>,
     <<<<"6","5","5","3","5">>>>,
     <<<<"6","5","5","3","6">>>>,
     <<<<"1","6","7","7","7","2","1","5">>>>,
     <<<<"1","6","7","7","7","2","1","6">>>>,
     <<<<"6","7","1","0","8","8","6","3">>>>,
     <<<<"6","7","1","0","8","8","6","4">>>>,
     <<<<"a","b","c">>>>,
     <<<<"0","x","1","0">>>>,
     <<<<"5">>, <<"6">>>>,
     <<<<"a","b","c">>, <<"6">>>>,
     <<<<"-">>>>,
     <<<<"1","_","_","0">>>>,
     <<<<"_","1">>>>}

UnitPrefixes == {<<>>, <<" ","\t">>}
UnitSuffixes == {<<>>, <<" ",";"," ","c">>, <<";","c">>}

RECURSIVE JoinTokens(_)
JoinTokens(tokens) ==
    IF tokens = <<>> THEN <<>> ELSE <<" ">> \o Head(tokens) \o JoinTokens(Tail(tokens))

UnitRows ==
    {pre \o m \o JoinTokens(ops) \o suf :
        pre \in UnitPrefixes, m \in UnitMnemonics, ops \in UnitOperands, suf \in UnitSuffixes}

\* the scenario of four lines: LOAD_CONST 3, STORE_MEM, a comment, BITREVERSE
ScenarioRows == <<RowLoadConst3, RowStoreMem, RowComment, RowBitreverse>>

\* a text file is its rows and whether the last row ends with a newline; a
\* file whose last row is empty and unterminated is the file without that row
InputFiles ==
    {[rows |-> r, eof_newline |-> nl] :
        r \in (UNION {[1..n -> SourceRows] : n \in 0..MaxLines})
                \cup {<<u>> : u \in UnitRows} \cup {ScenarioRows},
        nl \in BOOLEAN}
    \ {f \in [rows : (UNION {[1..n -> SourceRows] : n \in 0..MaxLines}),
              eof_newline : {FALSE}] : f.rows # <<>> /\ f.rows[Len(f.rows)] = <<>>}

\* f.readlines(): every line keeps its newline
readlines(f) ==
    [p \in 1..Len(f.rows) |->
        IF p < Len(f.rows) \/ f.eof_newline THEN f.rows[p] \o <<"\n">> ELSE f.rows[p]]

-----------------------------------------------------------------------------
(* main *)

OSError == [kind |-> "OSError"]

Init ==
    /\ file \in InputFiles
    /\ test \in BOOLEAN
    /\ pc = "open_input"
    /\ lines = <<>>
    /\ i = 1
    /\ instructions = <<>>
    /\ parse_calls = <<>>
    /\ ir = <<>>
    /\ idx = 1
    /\ enc = <<>>
    /\ buf = <<>>
    /\ out = [exists |-> FALSE, bytes |-> <<>>]
    /\ stdout = <<>>
    /\ stderr = <<>>
    /\ exc = <<>>
    /\ exit_code = <<>>

\* open(args.input) and f.readlines() succeed; assemble_to_ir starts
ReadInputOk ==
    /\ pc = "open_input"
    /\ lines' = readlines(file)
    /\ instructions' = <<>>
    /\ i' = 1
    /\ pc' = "assemble"
    /\ UNCHANGED <<file, test, parse_calls, ir, idx, enc, buf, out, stdout, stderr,
                   exc, exit_code>>

\* the input file cannot be opened or read
ReadInputFail ==
    /\ pc = "open_input"
    /\ exc' = <<OSError>>
    /\ pc' = "except"
    /\ UNCHANGED <<file, test, lines, i, instructions, parse_calls, ir, idx, enc, buf,
                   out, stdout, stderr, exit_code>>

\* one iteration of the loop of assemble_to_ir
ParseLineStep ==
    /\ pc = "assemble"
    /\ i <= Len(lines)
    /\ LET pair  == enumerate_start_1(lines)[i]
           instr == parse_line(pair[2], pair[1])
       IN  /\ parse_calls' =
                Append(parse_calls, [line_no |-> pair[1], line |-> pair[2], res |-> instr])
           /\ IF instr.kind = "SyntaxError"
              THEN /\ exc' = <<instr>>
                   /\ pc' = "except"
                   /\ UNCHANGED <<i, instructions>>
              ELSE /\ instructions' =
                        IF instr.kind = "Instruction"
                        THEN append(instructions, instr)
                        ELSE instructions
                   /\ i' = i + 1
                   /\ UNCHANGED <<exc, pc>>
    /\ UNCHANGED <<file, test, lines, ir, idx, enc, buf, out, stdout, stderr, exit_code>>

\* assemble_to_ir returns; main binds ir
AssembleReturn ==
    /\ pc = "assemble"
    /\ i > Len(lines)
    /\ ir' = <<instructions>>
    /\ pc' = IF test THEN "print_ir" ELSE "open_output"
    /\ UNCHANGED <<file, test, lines, i, instructions, parse_calls, idx, enc, buf, out,
                   stdout, stderr, exc, exit_code>>

\* what print_ir prints for the instructions from position k on
RECURSIVE print_ir(_, _)
print_ir(list, k) ==
    IF k > Len(list) THEN <<>>
    ELSE <<<<"Instruction", k - 1>>, <<"A", list[k].A>>>>
         \o (IF list[k].B # <<>> THEN <<<<"B", list[k].B[1]>>>> ELSE <<>>)
         \o print_ir(list, k + 1)

\* --test: the IR dump, then the head of print_machine_code
PrintIR ==
    /\ pc = "print_ir"
    /\ stdout' = stdout \o <<<<"=== Intermediate Representation (IR) ===">>>>
                        \o print_ir(ir[1], 1)
                        \o <<<<"=== Machine code ===">>,
                             <<"Number of instructions", Len(ir[1])>>>>
    /\ idx' = 1
    /\ pc' = "print_machine_code"
    /\ UNCHANGED <<file, test, lines, i, instructions, parse_calls, ir, enc, buf, out,
                   stderr, exc, exit_code>>

\* one iteration of the loop of print_machine_code
PrintMachineCodeStep ==
    /\ pc = "print_machine_code"
    /\ idx <= Len(ir[1])
    /\ LET instr     == ir[1][idx]
           bytes_seq == encode_instruction(instr)
       IN  /\ enc' = <<[instr |-> instr, word |-> encode_word(instr), res |-> bytes_seq]>>
           /\ IF bytes_seq.kind = "OverflowError"
              THEN /\ exc' = <<bytes_seq>>
                   /\ pc' = "except"
                   /\ UNCHANGED <<stdout, idx>>
              ELSE /\ stdout' = Append(stdout, <<"Instr", idx - 1, bytes_seq.bytes>>)
                   /\ idx' = idx + 1
                   /\ UNCHANGED <<exc, pc>>
    /\ UNCHANGED <<file, test, lines, i, instructions, parse_calls, ir, buf, out, stderr,
                   exit_code>>

PrintMachineCodeReturn ==
    /\ pc = "print_machine_code"
    /\ idx > Len(ir[1])
    /\ pc' = "open_output"
    /\ UNCHANGED <<file, test, lines, i, instructions, parse_calls, ir, idx, enc, buf,
                   out, stdout, stderr, exc, exit_code>>

\* write_binary_file: open(output_path, "wb") creates or truncates the file
OpenOutputOk ==
    /\ pc = "open_output"
    /\ out' = [exists |-> TRUE, bytes |-> <<>>]
    /\ buf' = <<>>
    /\ idx' = 1
    /\ pc' = "write"
    /\ UNCHANGED <<file, test, lines, i, instructions, parse_calls, ir, enc, stdout,
                   stderr, exc, exit_code>>

\* the output path cannot be opened for writing
OpenOutputFail ==
    /\ pc = "open_output"
    /\ exc' = <<OSError>>
    /\ pc' = "except"
    /\ UNCHANGED <<file, test, lines, i, instructions, parse_calls, ir, idx, enc, buf,
                   out, stdout, stderr, exit_code>>

\* one iteration of the loop of write_binary_file; an exception leaves the
\* with block, which closes the file and so flushes what was written
WriteStep ==
    /\ pc = "write"
    /\ idx <= Len(ir[1])
    /\ LET instr == ir[1][idx]
           data  == encode_instruction(instr)
       IN  /\ enc' = <<[instr |-> instr, word |-> encode_word(instr), res |-> data]>>
           /\ IF data.kind = "OverflowError"
              THEN /\ out' = [exists |-> TRUE, bytes |-> out.bytes \o buf]
                   /\ buf' = <<>>
                   /\ exc' = <<data>>
                   /\ pc' = "except"
                   /\ UNCHANGED <<idx, stdout>>
              ELSE /\ buf' = f_write(buf, data.bytes)
                   /\ idx' = idx + 1
                   /\ UNCHANGED <<out, exc, pc, stdout>>
    /\ UNCHANGED <<file, test, lines, i, instructions, parse_calls, ir, stderr, exit_code>>

\* the loop ends, the with block closes the file, main reports and returns
WriteReturn ==
    /\ pc = "write"
    /\ idx > Len(ir[1])
    /\ out' = [exists |-> TRUE, bytes |-> out.bytes \o buf]
    /\ buf' = <<>>
    /\ stdout' = Append(stdout, <<"Binary file written", Len(ir[1])>>)
    /\ exit_code' = <<0>>
    /\ pc' = "done"
    /\ UNCHANGED <<file, test, lines, i, instructions, parse_calls, ir, idx, enc, stderr,
                   exc>>

\* except Exception as e: the message goes to stderr, sys.exit(1)
HandleException ==
    /\ pc = "except"
    /\ stderr' = Append(stderr, exc[1])
    /\ exit_code' = <<1>>
    /\ pc' = "done"
    /\ UNCHANGED <<file, test, lines, i, instructions, parse_calls, ir, idx, enc, buf,
                   out, stdout, exc>>

Next ==
    \/ ReadInputOk
    \/ ReadInputFail
    \/ ParseLineStep
    \/ AssembleReturn
    \/ PrintIR
    \/ PrintMachineCodeStep
    \/ PrintMachineCodeReturn
    \/ OpenOutputOk
    \/ OpenOutputFail
    \/ WriteStep
    \/ WriteReturn
    \/ HandleException

Spec == Init /\ [][Next]_vars

-----------------------------------------------------------------------------
(* Reading a source line, stated on its characters *)

\* the statement of a line: its characters before the first ';'
Statement(line) ==
    LET n == CHOOSE n \in 0..Len(line) :
                 /\ \A p \in 1..n : line[p] # ";"
                 /\ n = Len(line) \/ line[n + 1] = ";"
    IN  SubSeq(line, 1, n)

\* blank or comment-only
IsBlank(line) ==
    LET s == Statement(line)
    IN  \A p \in 1..Len(s) : s[p] \in Whitespace

\* a token starts where a non-blank character follows a blank one or nothing
TokenStarts(s) ==
    {a \in 1..Len(s) : s[a] \notin Whitespace /\ (a = 1 \/ s[a - 1] \in Whitespace)}

TokenCount(s) == Cardinality(TokenStarts(s))

\* the k-th token, 1 <= k <= TokenCount(s)
Token(s, k) ==
    LET starts == TokenStarts(s)
        a == CHOOSE a \in starts : Cardinality({x \in starts : x < a}) = k - 1
        b == CHOOSE b \in a..Len(s) :
                 /\ \A p \in a..b : s[p] \notin Whitespace
                 /\ b = Len(s) \/ s[b + 1] \in Whitespace
    IN  SubSeq(s, a, b)

\* token spells the upper-case name m in some mix of letter cases
Spells(token, m) ==
    /\ Len(token) = Len(m)
    /\ \A p \in 1..Len(m) :
          \/ token[p] = m[p]
          \/ \E l \in 1..26 : LowerLetters[l] = token[p] /\ UpperLetters[l] = m[p]

Mnemonics == {LOAD_CONST, LOAD_MEM, STORE_MEM, BITREVERSE}
OperandBearing == {LOAD_CONST, LOAD_MEM}

\* token is a base-10 integer literal: an optional sign, then digits, with
\* single underscores allowed between two digits
Unsigned(token) ==
    IF token # <<>> /\ token[1] \in {"+", "-"} THEN Tail(token) ELSE token

IsDecimal(token) ==
    LET u == Unsigned(token)
    IN  /\ Len(u) >= 1
        /\ \A p \in 1..Len(u) :
              \/ IsDigit(u[p])
              \/ /\ u[p] = "_"
                 /\ 1 < p /\ p < Len(u)
                 /\ IsDigit(u[p - 1]) /\ IsDigit(u[p + 1])

\* the decimal digits of a natural number
RECURSIVE Decimal(_)
Decimal(n) ==
    IF n < 10 THEN <<DigitChars[n + 1]>>
    ELSE Decimal(n \div 10) \o <<DigitChars[(n % 10) + 1]>>

\* the digits of a literal without sign, underscores and leading zeros
Significant(token) ==
    LET d  == SelectSeq(Unsigned(token), IsDigit)
        nz == {p \in 1..Len(d) : d[p] # "0"}
    IN  IF nz = {} THEN <<"0">> ELSE SubSeq(d, SetMin(nz), Len(d))

\* the literal token denotes the integer n
Denotes(token, n) ==
    /\ IsDecimal(token)
    /\ Significant(token) = Decimal(IF n < 0 THEN -n ELSE n)
    /\ n < 0 => token[1] = "-"
    /\ n > 0 => token[1] # "-"

\* what a non-blank line is: the outcome the parser owes it
Reading(line) ==
    LET s     == Statement(line)
        first == Token(s, 1)
    IN  IF IsBlank(line) THEN "None"
        ELSE IF ~\E m \in Mnemonics : Spells(first, m) THEN "UnknownMnemonic"
        ELSE IF \E m \in OperandBearing : Spells(first, m)
             THEN IF TokenCount(s) # 2 THEN "ArityMismatch"
                  ELSE IF ~IsDecimal(Token(s, 2)) THEN "InvalidOperand"
                  ELSE "Instruction"
             ELSE IF TokenCount(s) # 1 THEN "ArityMismatch"
                  ELSE "Instruction"

Failures == {"UnknownMnemonic", "ArityMismatch", "InvalidOperand"}

\* the value of four bytes, least significant first, when below 2^31
LittleEndianValue(b) == b[1] + 256 * b[2] + 65536 * b[3] + 16777216 * b[4]

-----------------------------------------------------------------------------
(* Claims *)

\* the low 32 bits of a word, least significant byte first
Low32LittleEndian(word) ==
    <<word.lo % 256, word.lo \div 256, (word.hi % Limb) % 256, (word.hi % Limb) \div 256>>

\* C1 (as stated): every call of encode_instruction returns 4 bytes, the
\* little-endian low 32 bits of (B << 6) | A; it never fails, whatever the operand.
C1_EncodeNeverFails ==
    enc # <<>> =>
        /\ enc[1].res.kind = "bytes"
        /\ Len(enc[1].res.bytes) = 4
        /\ enc[1].res.bytes = Low32LittleEndian(enc[1].word)

\* C2 (as stated): the four-line scenario assembles to 3 instructions and its
\* image is 03 00 00 00, 01 00 00 00, 3C 00 00 00.
C2_ScenarioImage ==
    (file.rows = ScenarioRows /\ exit_code = <<0>>) =>
        /\ Len(ir[1]) = 3
        /\ out.bytes = <<3, 0, 0, 0, 1, 0, 0, 0, 60, 0, 0, 0>>

\* C2 (amended): the four-line scenario assembles to 3 instructions and its
\* image is the 12 bytes EA 00 00 00, 01 00 00 00, 3C 00 00 00: LOAD_CONST 3
\* packs to (3 << 6) | 42 = 234.
C2_ScenarioImageAmended ==
    /\ (file.rows = ScenarioRows /\ ir # <<>>) => Len(ir[1]) = 3
    /\ (file.rows = ScenarioRows /\ exit_code = <<0>>) =>
          /\ out.exists
          /\ out.bytes = <<234, 0, 0, 0, 1, 0, 0, 0, 60, 0, 0, 0>>

C2_Witness ==
    file.rows = ScenarioRows /\ exit_code = <<0>> /\ Len(out.bytes) = 12

\* C3 (as stated): a run of main ends either with status 0 and the complete
\* image written, or with a non-zero status and no output file created.
C3_AllOrNothing ==
    pc = "done" =>
        \/ /\ exit_code = <<0>>
           /\ out.exists
           /\ Len(out.bytes) = 4 * Len(ir[1])
        \/ /\ exit_code = <<1>>
           /\ ~out.exists

\* C4: when some line fails to parse, assemble_to_ir returns no list and fails
\* with the failure of the lowest-numbered failing line, carrying that line's
\* 1-based position; no later line is parsed.
C4_FailFast ==
    LET failing == {m \in 1..Len(lines) : Reading(lines[m]) \in Failures}
    IN  failing # {} =>
            LET n == SetMin(failing)
            IN  /\ Len(parse_calls) <= n
                /\ \A k \in 1..Len(parse_calls) :
                      /\ parse_calls[k].line_no = k
                      /\ parse_calls[k].line = lines[k]
                /\ ir = <<>>
                /\ pc # "assemble" =>
                      /\ Len(parse_calls) = n
                      /\ exc = <<SyntaxError(Reading(lines[n]), n)>>
                /\ pc = "done" => exit_code = <<1>> /\ stderr = exc

C4_Witness ==
    /\ pc = "done"
    /\ exc # <<>> /\ exc[1].kind = "SyntaxError" /\ exc[1].line_no = 2
    /\ IsBlank(lines[1])
    /\ Len(lines) = 3

\* C5: for an operand within its field the word is B * 64 + A with every bit
\* above the field zero (LOAD_CONST: 0 <= B < 2^16, bits 22-31 zero; LOAD_MEM:
\* 0 <= B < 2^24, bits 30-31 zero); STORE_MEM and BITREVERSE give A alone; the
\* 4 bytes are the word least significant byte first; LOAD_MEM 10 gives
\* 97 02 00 00.
C5_InRangeLayout ==
    enc # <<>> =>
        LET instr == enc[1].instr
            res   == enc[1].res
        IN  /\ (instr.mnemonic = LOAD_CONST /\ instr.B[1] \in 0..(2^16 - 1)) =>
                  /\ res.kind = "bytes" /\ Len(res.bytes) = 4
                  /\ LittleEndianValue(res.bytes) = instr.B[1] * 64 + 42
                  /\ LittleEndianValue(res.bytes) < 2^22
            /\ (instr.mnemonic = LOAD_MEM /\ instr.B[1] \in 0..(2^24 - 1)) =>
                  /\ res.kind = "bytes" /\ Len(res.bytes) = 4
                  /\ LittleEndianValue(res.bytes) = instr.B[1] * 64 + 23
                  /\ LittleEndianValue(res.bytes) < 2^30
            /\ instr.mnemonic \in {STORE_MEM, BITREVERSE} =>
                  /\ res.kind = "bytes" /\ Len(res.bytes) = 4
                  /\ LittleEndianValue(res.bytes) = instr.A
            /\ (instr.mnemonic = LOAD_MEM /\ instr.B = <<10>>) =>
                  res.bytes = <<151, 2, 0, 0>>
            /\ res.kind = "bytes" => \A p \in 1..4 : res.bytes[p] \in 0..255

C5_Witness ==
    /\ enc # <<>>
    /\ enc[1].instr.mnemonic = LOAD_MEM
    /\ enc[1].instr.B = <<2^24 - 1>>
    /\ enc[1].res.kind = "bytes"

\* C6: an Instruction returned by parse_line has the upper-cased first token
\* as mnemonic (any letter case is accepted), A from the opcode table, and B
\* present exactly for LOAD_CONST and LOAD_MEM, equal to the operand's value.
C6_InstructionFields ==
    \A k \in 1..Len(parse_calls) :
        LET c == parse_calls[k]
            s == Statement(c.line)
            first == Token(s, 1)
        IN  /\ c.res.kind = "Instruction" =>
                  /\ c.res.mnemonic \in Mnemonics
                  /\ Spells(first, c.res.mnemonic)
                  /\ c.res.A = OPCODES[c.res.mnemonic]
                  /\ (c.res.B # <<>>) <=> (c.res.mnemonic \in OperandBearing)
                  /\ c.res.B # <<>> =>
                        /\ Len(c.res.B) = 1
                        /\ TokenCount(s) = 2
                        /\ Denotes(Token(s, 2), c.res.B[1])
            /\ (~IsBlank(c.line) /\ \E m \in Mnemonics : Spells(first, m)) =>
                  ~(c.res.kind = "SyntaxError" /\ c.res.error = "UnknownMnemonic")

C6_Witness ==
    \E k \in 1..Len(parse_calls) :
        /\ parse_calls[k].res.kind = "Instruction"
        /\ parse_calls[k].res.B = <<10>>
        /\ Token(Statement(parse_calls[k].line), 1) # parse_calls[k].res.mnemonic
\* C7: when every line parses, the list assemble_to_ir returns is the
\* instructions of the lines that are not blank and not comment-only, in
\* source order; a blank or comment-only line gives no instruction and no
\* error, and a trailing comment does not change a statement's instruction.
C7_IrIsNonBlankLines ==
    /\ \A k \in 1..Len(parse_calls) :
          IsBlank(parse_calls[k].line) => parse_calls[k].res = None
    /\ ir # <<>> =>
          LET kept   == {m \in 1..Len(lines) : ~IsBlank(lines[m])}
              nth(j) == CHOOSE m \in kept : Cardinality({x \in kept : x < m}) = j - 1
          IN  /\ Len(parse_calls) = Len(lines)
              /\ Len(ir[1]) = Cardinality(kept)
              /\ \A j \in 1..Len(ir[1]) :
                    /\ ir[1][j].kind = "Instruction"
                    /\ ir[1][j] = parse_calls[nth(j)].res
                    /\ ir[1][j] = parse_line(Statement(lines[nth(j)]), nth(j))

C7_Witness ==
    /\ ir # <<>>
    /\ Len(lines) = 3
    /\ Len(ir[1]) = 2
    /\ ir[1][1] # ir[1][2]
    /\ IsBlank(lines[2])
    /\ \E p \in 1..Len(lines[1]) : lines[1][p] = ";"

\* C8: when writing succeeds the output file holds exactly 4 * n bytes, bytes
\* 4k..4k+3 being encode_instruction of the k-th instruction of the IR; an
\* empty IR gives an empty file.
C8_ImageIsEncodedIr ==
    exit_code = <<0>> =>
        /\ out.exists
        /\ Len(out.bytes) = 4 * Len(ir[1])
        /\ \A k \in 1..Len(ir[1]) :
              SubSeq(out.bytes, 4 * k - 3, 4 * k) = encode_instruction(ir[1][k]).bytes

C8_Witness ==
    /\ exit_code = <<0>>
    /\ Len(ir[1]) = 3
    /\ ir[1][1] # ir[1][2]
    /\ Len(out.bytes) = 12

\* C9: the low 6 bits of every word encode_instruction packs are the opcode
\* of the instruction's mnemonic, also for an operand wider than its field.
C9_LowSixBitsAreOpcode ==
    enc # <<>> =>
        /\ enc[1].word.lo % 64 = OPCODES[enc[1].instr.mnemonic]
        /\ enc[1].res.kind = "bytes" =>
              enc[1].res.bytes[1] % 64 = OPCODES[enc[1].instr.mnemonic]

C9_Witness ==
    /\ enc # <<>>
    /\ enc[1].instr.mnemonic = LOAD_MEM
    /\ enc[1].instr.B = <<2^24>>
    /\ enc[1].res.kind = "bytes"

\* C10: on a line that is not blank after comment stripping parse_line
\* reports UnknownMnemonic if the first token names no mnemonic; otherwise
\* ArityMismatch if the token count is wrong for the mnemonic; otherwise
\* InvalidOperand if the operand is no base-10 integer; otherwise an
\* Instruction; never 'no instruction'.
C10_CheckOrder ==
    \A k \in 1..Len(parse_calls) :
        LET c == parse_calls[k]
        IN  ~IsBlank(c.line) =>
                /\ c.res.kind \in {"SyntaxError", "Instruction"}
                /\ LET owed == Reading(c.line)
                   IN  /\ owed \in Failures => c.res = SyntaxError(owed, c.line_no)
                       /\ owed = "Instruction" => c.res.kind = "Instruction"

C10_Witness ==
    \E k \in 1..Len(parse_calls) :
        LET c == parse_calls[k]
            s == Statement(c.line)
        IN  /\ c.res.kind = "SyntaxError"
            /\ c.res.error = "ArityMismatch"
            /\ TokenCount(s) = 3
            /\ Spells(Token(s, 1), LOAD_CONST)
            /\ ~IsDecimal(Token(s, 2))

====
